---- MODULE Spec2Model ----
(***************************************************************************)
(* Model of the jornet leaderboard client (jornet/src/lib.rs).             *)
(*                                                                         *)
(* Rust values are represented as follows.                                 *)
(*   Option<T>   a sequence of length 0 (None) or 1 (Some(x))              *)
(*   Uuid        its 16 raw bytes, a sequence over 0..255                  *)
(*   String fed to the HMAC (meta)   its UTF-8 bytes                       *)
(*   String produced by hex::encode / Uuid's Display   a sequence of       *)
(*               one-character strings                                     *)
(*   f32         its IEEE-754 fields [sign, exp, mant]                     *)
(*   u64 / wall clock   an integer number of seconds (below 2^31)          *)
(***************************************************************************)
EXTENDS Integers, Sequences, FiniteSets, TLC

(* ---------------------------------------------------------------------- *)
(* Bounds of the model                                                     *)
(* ---------------------------------------------------------------------- *)
NumHandles == 2
NumPlayers == 2
MaxMetaLen == 1
MaxScores == 2
MaxClock == 2
MaxWrites == 3

(* ---------------------------------------------------------------------- *)
(* Values                                                                  *)
(* ---------------------------------------------------------------------- *)
None == <<>>
Some(x) == <<x>>
Unit == "()"

Byte == 0..255

MkUuid(n) == [i \in 1..16 |-> (17 * n + 3 * (i - 1)) % 256]

F32(sign, exp, mant) == [sign |-> sign, exp |-> exp, mant |-> mant]

\* 42.0 = 0x42280000, 0.1 = 0x3DCCCCCD, -1.5 = 0xBFC00000
Scores == {F32(0, 132, 2621440), F32(0, 123, 5033165), F32(1, 127, 4194304)}

MetaAlphabet == {0, 97}

RECURSIVE StringsUpTo(_)
StringsUpTo(n) ==
  IF n = 0 THEN {<<>>}
  ELSE LET shorter == StringsUpTo(n - 1)
       IN  shorter \cup {Append(s, c) : s \in shorter, c \in MetaAlphabet}

Metas == StringsUpTo(MaxMetaLen)

PlayerNames == <<"Ada", "Bob", "Cy", "Di">>

\* struct Player { id, key, name }
Player(id, key, name) == [id |-> id, key |-> key, name |-> name]

MkPlayer(i) == Player(MkUuid(10 + i), MkUuid(20 + i), PlayerNames[((i - 1) % 4) + 1])

Players == {MkPlayer(i) : i \in 1..NumPlayers}

Names == {None} \cup {Some(PlayerNames[i]) : i \in 1..2}

Handles == 1..NumHandles

\* struct Score { score, player, meta, timestamp }, as sent by the server
Score(score, player, meta, timestamp) ==
  [score |-> score, player |-> player, meta |-> meta, timestamp |-> timestamp]

ServerScores == {Score(F32(0, 130, 2097152), "Ada", None, "2022-10-01 10:00:00"),
                 Score(F32(0, 129, 2097152), "Bob", Some(<<97>>), "2022-10-02 11:30:00")}

RECURSIVE SeqsUpTo(_, _)
SeqsUpTo(S, n) ==
  IF n = 0 THEN {<<>>}
  ELSE LET shorter == SeqsUpTo(S, n - 1)
       IN  shorter \cup {Append(s, x) : s \in shorter, x \in S}

ScoreLists == SeqsUpTo(ServerScores, MaxScores)

(* ---------------------------------------------------------------------- *)
(* Wall clock                                                              *)
(* ---------------------------------------------------------------------- *)
\* A clock reading <<secs, millis>>: the time is secs + millis/1000 seconds
\* from the Unix epoch.  Reading 0 lies before the epoch (-0.5 s).
ClockReading(j) ==
  IF j = 0 THEN <<-1, 500>>
  ELSE <<1700000000 + (j - 1), 500 * (j % 2)>>

ClockReadings == {ClockReading(j) : j \in 0..MaxClock}

Targets == {"native", "wasm32"}

(* ---------------------------------------------------------------------- *)
(* Byte encodings                                                          *)
(* ---------------------------------------------------------------------- *)
\* u64::to_le_bytes: w bytes, least significant first
RECURSIVE LeBytes(_, _)
LeBytes(n, w) ==
  IF w = 0 THEN <<>> ELSE <<n % 256>> \o LeBytes(n \div 256, w - 1)

U64ToLeBytes(n) == LeBytes(n, 8)

\* f32::to_le_bytes: the IEEE-754 word sign(1) exp(8) mant(23), least
\* significant byte first
F32ToLeBytes(f) ==
  << f.mant % 256,
     (f.mant \div 256) % 256,
     (f.exp % 2) * 128 + (f.mant \div 65536),
     f.sign * 128 + (f.exp \div 2) >>

HexDigits == <<"0", "1", "2", "3", "4", "5", "6", "7",
               "8", "9", "a", "b", "c", "d", "e", "f">>

\* a hex encoding with uppercase digits (hex::encode_upper)
HexEncode_Upper(bytes) ==
  LET Upper == <<"0", "1", "2", "3", "4", "5", "6", "7",
                 "8", "9", "A", "B", "C", "D", "E", "F">>
  IN  [i \in 1..(2 * Len(bytes)) |->
         IF i % 2 = 1 THEN Upper[(bytes[(i + 1) \div 2] \div 16) + 1]
         ELSE Upper[(bytes[i \div 2] % 16) + 1]]

\* hex::encode: two lowercase digits per byte, high nibble first
HexEncode(bytes) ==
  [i \in 1..(2 * Len(bytes)) |->
     IF i % 2 = 1 THEN HexDigits[(bytes[(i + 1) \div 2] \div 16) + 1]
     ELSE HexDigits[(bytes[i \div 2] % 16) + 1]]

\* Display of Uuid: hyphenated lowercase, 8-4-4-4-12
UuidToString(u) ==
  HexEncode(SubSeq(u, 1, 4)) \o <<"-">> \o HexEncode(SubSeq(u, 5, 6)) \o <<"-">>
    \o HexEncode(SubSeq(u, 7, 8)) \o <<"-">> \o HexEncode(SubSeq(u, 9, 10)) \o <<"-">>
    \o HexEncode(SubSeq(u, 11, 16))

(* ---------------------------------------------------------------------- *)
(* HMAC-SHA256 (crates hmac, sha2): a deterministic keyed function of the  *)
(* key and the message to 32 bytes.  The SHA-256 rounds are replaced by a  *)
(* byte-wise mix in which every key byte, every message byte and the       *)
(* message length enter with an odd coefficient.                           *)
(* ---------------------------------------------------------------------- *)
ByteAt(bytes, i) == IF i <= Len(bytes) THEN bytes[i] ELSE 0

HmacSha256(key, message) ==
  [i \in 1..32 |->
     (3 * ByteAt(key, ((i - 1) % 16) + 1)
        + ByteAt(message, i) + 5 * ByteAt(message, i + 32) + 9 * ByteAt(message, i + 64)
        + 7 * i * (Len(message) + Len(key))) % 256]

(* ---------------------------------------------------------------------- *)
(* State                                                                   *)
(* ---------------------------------------------------------------------- *)
VARIABLES
  lb,      \* lb[h]: the Leaderboard struct of handle h: id, key, host, player
  clock,   \* the wall clock, a reading <<secs, millis>>
  target,  \* the build: "native" or "wasm32" (cfg(target_arch))
  last,    \* the call the host application has just made and not yet moved on
           \* from: the operation, the handle before it, what the transport was
           \* handed and answered, what was fed to the HMAC, what was returned;
           \* Idle between calls
  slot,    \* slot[h]: the result slot of the cooperative single-thread regime:
           \* whether a background task is scheduled, and the slot's content
  hist     \* how many results background tasks have written, and how often each
           \* of them was delivered by a drain

vars == <<lb, clock, target, last, slot, hist>>

\* return values: Result (Ok/Err), Option (Some/None), () and a panic
Ok(x) == [kind |-> "Ok", val |-> x]
Err(msg) == [kind |-> "Err", val |-> msg]
RetSome(x) == [kind |-> "Some", val |-> x]
RetNone == [kind |-> "None", val |-> Unit]
RetUnit == [kind |-> "unit", val |-> Unit]
Panic(msg) == [kind |-> "panic", val |-> msg]

\* an HTTP request handed to the transport (http::post / http::get)
Post(url, kind, body) == [method |-> "POST", url |-> url, kind |-> kind, body |-> body]
Get(url) == [method |-> "GET", url |-> url, kind |-> "none", body |-> Unit]

Call(op, h, args, pre, reqs, resp, mac, ret) ==
  [op |-> op, h |-> h, args |-> args, pre |-> pre,
   reqs |-> reqs, resp |-> resp, mac |-> mac, ret |-> ret]

(* ---------------------------------------------------------------------- *)
(* Leaderboard                                                             *)
(* ---------------------------------------------------------------------- *)
with_host_and_leaderboard(host, id, key) ==
  [id |-> id,
   key |-> key,
   host |-> IF host = None THEN "https://jornet.vleue.com" ELSE host[1],
   player |-> None]

\* JornetPlugin: host is None unless with_host was called
HostArg(h) == IF h % 2 = 1 THEN None ELSE Some("http://localhost:8080")

NewHandle(h) == with_host_and_leaderboard(HostArg(h), MkUuid(h), MkUuid(5 + h))

Idle == Call("idle", 1, <<>>, NewHandle(1), <<>>, None, None, RetUnit)

EmptySlot == [pending |-> FALSE, content |-> None]

Init ==
  /\ lb = [h \in Handles |-> NewHandle(h)]
  /\ clock \in ClockReadings
  /\ target \in Targets
  /\ last = Idle
  /\ slot = [h \in Handles |-> EmptySlot]
  /\ hist = [written |-> 0, delivered |-> [n \in 1..MaxWrites |-> 0]]

GetPlayerReturn(self) ==
  IF self.player = None THEN RetNone ELSE RetSome(self.player[1])

get_player(h) ==
  /\ last = Idle
  /\ last' = Call("get_player", h, <<>>, lb[h], <<>>, None, None, GetPlayerReturn(lb[h]))
  /\ UNCHANGED <<lb, clock, target, slot, hist>>

\* struct PlayerInput { name }
PlayerInput(name) == [name |-> name]

PlayersUrl(host) == <<host, "/api/v1/players">>

CreatePlayerRequests(self, name) ==
  <<Post(PlayersUrl(self.host), "PlayerInput", PlayerInput(name))>>

\* a create_player that drops the current player when the request fails
CreatePlayerStore_ClearOnFailure(self, response) ==
  [self EXCEPT !.player = response]

CreatePlayerStore(self, response) ==
  IF response # None THEN [self EXCEPT !.player = Some(response[1])] ELSE self

\* a create_player that hands back the player it held before the call
CreatePlayerReturn_Stale(self, response) ==
  IF response # None
  THEN Ok(IF self.player # None THEN self.player[1] ELSE response[1])
  ELSE Err("error creating a player")

CreatePlayerReturn(self, response) ==
  IF response # None
  THEN Ok(CreatePlayerStore(self, response).player[1])
  ELSE Err("error creating a player")

create_player(h, name) ==
  /\ last = Idle
  /\ \E response \in {None} \cup {Some(p) : p \in Players} :
       /\ lb' = [lb EXCEPT ![h] = CreatePlayerStore(lb[h], response)]
       /\ last' = Call("create_player", h, <<name>>, lb[h], CreatePlayerRequests(lb[h], name),
                       response, None, CreatePlayerReturn(lb[h], response))
  /\ UNCHANGED <<clock, target, slot, hist>>

\* an as_player that merges: the key of a player already set survives
AsPlayerStore_Merge(self, player) ==
  [self EXCEPT !.player =
     Some(IF self.player = None THEN player
          ELSE [player EXCEPT !.key = self.player[1].key])]

\* an as_player that keeps the player in state shared by all handles
as_player_Shared(h, player) ==
  /\ last = Idle
  /\ lb' = [g \in Handles |-> [lb[g] EXCEPT !.player = Some(player)]]
  /\ last' = Call("as_player", h, <<player>>, lb[h], <<>>, None, None, RetUnit)
  /\ UNCHANGED <<clock, target, slot, hist>>

AsPlayerStore(self, player) == [self EXCEPT !.player = Some(player)]

AsPlayerRequests(self, player) == <<>>

as_player(h, player) ==
  /\ last = Idle
  /\ lb' = [lb EXCEPT ![h] = AsPlayerStore(lb[h], player)]
  /\ last' = Call("as_player", h, <<player>>, lb[h], AsPlayerRequests(lb[h], player),
                  None, None, RetUnit)
  /\ UNCHANGED <<clock, target, slot, hist>>

(* ---------------------------------------------------------------------- *)
(* ScoreInput                                                              *)
(* ---------------------------------------------------------------------- *)
\* SystemTime::now().duration_since(UNIX_EPOCH) is an Err before the epoch
TimeWentBackwards(tgt, now) == tgt = "native" /\ now[1] < 0

\* a timestamp read once, when the handle was built, and kept
Timestamp_Cached(tgt, now) == ClockReading(1)[1]

\* native: Duration::as_secs; wasm32: (Date::now() / 1000.0) as u64, a
\* saturating cast that truncates toward zero
Timestamp(tgt, now) ==
  IF tgt = "native" THEN now[1]
  ELSE IF now[1] < 0 THEN 0 ELSE now[1]

MacKey(player) == player.key

\* a message with the player id ahead of the leaderboard key
MacMessage_Reordered(timestamp, leaderboard_key, score, player, meta) ==
  U64ToLeBytes(timestamp) \o player.id \o leaderboard_key \o F32ToLeBytes(score)
    \o (IF meta # None THEN meta[1] ELSE <<>>)

MacMessage(timestamp, leaderboard_key, score, player, meta) ==
  U64ToLeBytes(timestamp) \o leaderboard_key \o player.id \o F32ToLeBytes(score)
    \o (IF meta # None THEN meta[1] ELSE <<>>)

MacInput(timestamp, leaderboard_key, score, player, meta) ==
  [key |-> MacKey(player),
   message |-> MacMessage(timestamp, leaderboard_key, score, player, meta)]

MacFinalize(mac) == HmacSha256(mac.key, mac.message)

\* a ScoreInput that signs the meta but does not send it
ScoreInputNew_MetaDropped(timestamp, leaderboard_key, score, player, meta) ==
  [score |-> score,
   player |-> player.id,
   meta |-> None,
   timestamp |-> timestamp,
   k |-> HexEncode(MacFinalize(MacInput(timestamp, leaderboard_key, score, player, meta)))]

\* a ScoreInput that also serializes the key it signed with
ScoreInputNew_WithKey(timestamp, leaderboard_key, score, player, meta) ==
  [score |-> score,
   player |-> player.id,
   meta |-> meta,
   timestamp |-> timestamp,
   k |-> HexEncode(MacFinalize(MacInput(timestamp, leaderboard_key, score, player, meta))),
   key |-> player.key]

ScoreInputNew(timestamp, leaderboard_key, score, player, meta) ==
  [score |-> score,
   player |-> player.id,
   meta |-> meta,
   timestamp |-> timestamp,
   k |-> HexEncode(MacFinalize(MacInput(timestamp, leaderboard_key, score, player, meta)))]

ScoresUrl(host, leaderboard_id) == <<host, "/api/v1/scores/", UuidToString(leaderboard_id)>>

\* a send that reports success whatever the transport answered
SendReturn_AlwaysSome(response) == RetSome(Unit)

SendReturn(response) == IF response = None THEN RetNone ELSE RetSome(Unit)

\* a send that posts even when no player is set, signing as the nil player
SendRequests_Unguarded(self, timestamp, score, meta) ==
  <<Post(ScoresUrl(self.host, self.id), "ScoreInput",
         ScoreInputNew(timestamp, self.key, score,
                       IF self.player # None THEN self.player[1]
                       ELSE Player(MkUuid(0), MkUuid(0), ""),
                       meta))>>

\* the requests inner_send_score_with_meta hands to the transport
SendRequests(self, timestamp, score, meta) ==
  IF self.player # None
  THEN <<Post(ScoresUrl(self.host, self.id), "ScoreInput",
              ScoreInputNew(timestamp, self.key, score, self.player[1], meta))>>
  ELSE <<>>

\* a send that does not look at the player: with none set it signs as the nil
\* player and posts
inner_send_score_with_meta_Unchecked(h, op, args, score, meta) ==
  /\ last = Idle
  /\ IF TimeWentBackwards(target, clock)
     THEN last' = Call(op, h, args, lb[h], <<>>, None, None,
                       Panic("Time went backwards"))
     ELSE \E response \in {None, Some(Unit)} :
            LET player == IF lb[h].player # None THEN lb[h].player[1]
                          ELSE Player(MkUuid(0), MkUuid(0), "")
            IN  last' = Call(op, h, args, lb[h],
                             <<Post(ScoresUrl(lb[h].host, lb[h].id), "ScoreInput",
                                    ScoreInputNew(Timestamp(target, clock), lb[h].key,
                                                  score, player, meta))>>,
                             response,
                             Some(MacInput(Timestamp(target, clock), lb[h].key, score,
                                           player, meta)),
                             SendReturn(response))
  /\ UNCHANGED <<lb, clock, target, slot, hist>>

inner_send_score_with_meta(h, op, args, score, meta) ==
  /\ last = Idle
  /\ IF lb[h].player # None
     THEN IF TimeWentBackwards(target, clock)
          THEN last' = Call(op, h, args, lb[h], <<>>, None, None,
                            Panic("Time went backwards"))
          ELSE \E response \in {None, Some(Unit)} :
                 last' = Call(op, h, args, lb[h],
                              SendRequests(lb[h], Timestamp(target, clock), score, meta),
                              response,
                              Some(MacInput(Timestamp(target, clock), lb[h].key, score,
                                            lb[h].player[1], meta)),
                              SendReturn(response))
     ELSE last' = Call(op, h, args, lb[h],
                       SendRequests(lb[h], Timestamp(target, clock), score, meta),
                       None, None, RetNone)
  /\ UNCHANGED <<lb, clock, target, slot, hist>>

send_score(h, score) ==
  inner_send_score_with_meta(h, "send_score", <<score>>, score, None)

send_score_with_meta(h, score, meta) ==
  inner_send_score_with_meta(h, "send_score_with_meta", <<score, meta>>, score, Some(meta))

\* a get_leaderboard that ranks the scores itself, highest first
F32Rank(f) == (1 - 2 * f.sign) * (f.exp * 8388608 + f.mant)

RECURSIVE InsertDesc(_, _)
InsertDesc(x, sorted) ==
  IF sorted = <<>> THEN <<x>>
  ELSE IF F32Rank(x.score) >= F32Rank(Head(sorted).score) THEN <<x>> \o sorted
  ELSE <<Head(sorted)>> \o InsertDesc(x, Tail(sorted))

RECURSIVE SortDesc(_)
SortDesc(scores) ==
  IF scores = <<>> THEN <<>> ELSE InsertDesc(Head(scores), SortDesc(Tail(scores)))

GetLeaderboardReturn_Sorted(response) ==
  IF response # None THEN Ok(SortDesc(response[1])) ELSE Err("error getting the leaderboard")

GetLeaderboardReturn(response) ==
  IF response # None THEN Ok(response[1]) ELSE Err("error getting the leaderboard")

\* a get_leaderboard that sends its GET a second time
GetLeaderboardRequests_Retry(self) ==
  <<Get(ScoresUrl(self.host, self.id)), Get(ScoresUrl(self.host, self.id))>>

GetLeaderboardRequests(self) == <<Get(ScoresUrl(self.host, self.id))>>

\* a get_leaderboard that forgets the player when its GET fails
get_leaderboard_Logout(h) ==
  /\ last = Idle
  /\ \E response \in {None} \cup {Some(l) : l \in ScoreLists} :
       /\ last' = Call("get_leaderboard", h, <<>>, lb[h], GetLeaderboardRequests(lb[h]),
                       response, None, GetLeaderboardReturn(response))
       /\ lb' = IF response = None THEN [lb EXCEPT ![h].player = None] ELSE lb
  /\ UNCHANGED <<clock, target, slot, hist>>

get_leaderboard(h) ==
  /\ last = Idle
  /\ \E response \in {None} \cup {Some(l) : l \in ScoreLists} :
       last' = Call("get_leaderboard", h, <<>>, lb[h], GetLeaderboardRequests(lb[h]),
                    response, None, GetLeaderboardReturn(response))
  /\ UNCHANGED <<lb, clock, target, slot, hist>>

(* ---------------------------------------------------------------------- *)
(* The result slot of the cooperative single-thread regime and its poll    *)
(* step, check_for_updates                                                 *)
(* ---------------------------------------------------------------------- *)
\* what a background fetch can produce: no result, or a list of scores
SlotResults == {None} \cup {Some(l) : l \in SeqsUpTo(ServerScores, 1)}

\* a request is scheduled as a task on the host's queue
Dispatch(h) ==
  /\ last = Idle
  /\ target = "wasm32"
  /\ ~slot[h].pending
  /\ slot' = [slot EXCEPT ![h].pending = TRUE]
  /\ UNCHANGED <<lb, clock, target, last, hist>>

\* the slot after the background task has stored its result
SlotWrite(s, entry) == [pending |-> FALSE, content |-> Some(entry)]

\* the task runs at a later tick and stores its result in the slot
BackgroundWrite(h, result) ==
  /\ last = Idle
  /\ slot[h].pending
  /\ hist.written < MaxWrites
  /\ slot' = [slot EXCEPT ![h] = SlotWrite(slot[h], <<hist.written + 1, result>>)]
  /\ hist' = [hist EXCEPT !.written = hist.written + 1]
  /\ UNCHANGED <<lb, clock, target, last>>

\* a drain that reads the slot and leaves its content in place
SlotTake_Peek(s) == s

\* the slot after a drain: the content is taken
SlotTake(s) == [s EXCEPT !.content = None]

DrainReturn(s) ==
  IF s.content = None THEN RetNone ELSE RetSome(s.content[1])

Delivered(h_, s) ==
  IF s.content = None THEN h_
  ELSE [h_ EXCEPT !.delivered[s.content[1][1]] = IF @ < 2 THEN @ + 1 ELSE @]

\* the poll step: takes and clears the slot
check_for_updates(h) ==
  /\ last = Idle
  /\ last' = Call("check_for_updates", h, <<>>, lb[h], <<>>, None, None,
                  DrainReturn(slot[h]))
  /\ slot' = [slot EXCEPT ![h] = SlotTake(slot[h])]
  /\ hist' = Delivered(hist, slot[h])
  /\ UNCHANGED <<lb, clock, target>>

(* ---------------------------------------------------------------------- *)
(* The environment                                                         *)
(* ---------------------------------------------------------------------- *)
\* the host application moves on from the call it made
Resume ==
  /\ last # Idle
  /\ last' = Idle
  /\ UNCHANGED <<lb, clock, target, slot, hist>>

\* the wall clock moves between calls (it may be set back)
SetClock(now) ==
  /\ last = Idle
  /\ now # clock
  /\ clock' = now
  /\ UNCHANGED <<lb, target, last, slot, hist>>

Next ==
  \/ \E h \in Handles : get_player(h)
  \/ \E h \in Handles, name \in Names : create_player(h, name)
  \/ \E h \in Handles, player \in Players : as_player(h, player)
  \/ \E h \in Handles, score \in Scores : send_score(h, score)
  \/ \E h \in Handles, score \in Scores, meta \in Metas : send_score_with_meta(h, score, meta)
  \/ \E h \in Handles : get_leaderboard(h)
  \/ \E h \in Handles : check_for_updates(h)
  \/ Resume
  \/ \E now \in ClockReadings : SetClock(now)

Spec == Init /\ [][Next]_vars

\* the cooperative regime: background tasks and the poll step interleave
SlotNext ==
  \/ \E h \in Handles : Dispatch(h)
  \/ \E h \in Handles, result \in SlotResults : BackgroundWrite(h, result)
  \/ \E h \in Handles : check_for_updates(h)
  \/ Resume

SlotSpec == Init /\ [][SlotNext]_vars

TypeOK ==
  /\ \A h \in Handles : lb[h].player \in {None} \cup {Some(p) : p \in Players}
  /\ clock \in ClockReadings
  /\ target \in Targets
  /\ Len(last.reqs) <= 1

(* ---------------------------------------------------------------------- *)
(* Properties                                                              *)
(* ---------------------------------------------------------------------- *)
IsSend == last.op \in {"send_score", "send_score_with_meta"}

\* the meta argument of the send recorded in last
SentMeta == IF last.op = "send_score" THEN None ELSE Some(last.args[2])

\* C1: a send on a handle whose current player is none returns failure and
\* hands no request to the transport, whatever the score and meta.
C1_NoPlayerNoRequest ==
  (IsSend /\ last.pre.player = None) =>
    (last.ret.kind = "None" /\ last.reqs = <<>>)

C1_Witness ==
  /\ last.op = "send_score_with_meta"
  /\ last.pre.player = None
  /\ last.args[2] # <<>>

\* C2: a create_player whose POST yields no result returns an error and leaves
\* the handle as it was before the call, in the Uninitialized and in the
\* Active state.
C2_CreateFailureKeepsState ==
  (last.op = "create_player" /\ last.resp = None) =>
    (last.ret.kind = "Err" /\ lb[last.h] = last.pre)

C2_Witness ==
  /\ last.op = "create_player"
  /\ last.resp = None
  /\ last.pre.player # None

\* C3: a create_player that succeeds returns exactly the player the server
\* responded with and stores it as the current player, so the handle is Active
\* and get_player returns that player.
C3_CreateSuccessStoresAndReturns ==
  /\ (last.op = "create_player" /\ last.resp # None) =>
       /\ last.ret = Ok(last.resp[1])
       /\ lb[last.h].player = Some(last.resp[1])
       /\ GetPlayerReturn(lb[last.h]) = RetSome(last.resp[1])
  /\ (last.op = "get_player" /\ lb[last.h].player # None) =>
       last.ret = RetSome(lb[last.h].player[1])

C3_Witness ==
  /\ last.op = "create_player"
  /\ last.resp # None
  /\ last.pre.player # None
  /\ last.pre.player # last.resp

\* C4: as_player(p) hands no request to the transport and leaves the current
\* player equal to p, every field of it, whether or not a player was set.
C4_AsPlayerOverwrites ==
  (last.op = "as_player") =>
    /\ last.reqs = <<>>
    /\ lb[last.h].player = Some(last.args[1])
    /\ lb[last.h] = [last.pre EXCEPT !.player = Some(last.args[1])]

C4_Witness ==
  /\ last.op = "as_player"
  /\ last.pre.player # None
  /\ last.pre.player[1].key # last.args[1].key

\* C5: a send returns success exactly when a player is set and its single POST
\* to {host}/api/v1/scores/{leaderboard_id} produced a result; with a player
\* set and a failed POST it returns failure.
C5_SendSuccessIffAcknowledged ==
  IsSend =>
    /\ Len(last.reqs) <= 1
    /\ (last.ret.kind = "Some") <=>
         /\ last.pre.player # None
         /\ Len(last.reqs) = 1
         /\ last.reqs[1].method = "POST"
         /\ last.reqs[1].url =
              <<last.pre.host, "/api/v1/scores/", UuidToString(last.pre.id)>>
         /\ last.resp # None
    /\ (last.pre.player # None /\ last.reqs # <<>> /\ last.resp = None) =>
         last.ret.kind = "None"

C5_Witness ==
  /\ IsSend
  /\ last.pre.player # None
  /\ last.reqs # <<>>
  /\ last.resp = None

\* C6: a get_leaderboard whose GET produced a result returns the server's
\* sequence of scores as it is (length, elements, order); otherwise an error.
C6_LeaderboardAsServed ==
  (last.op = "get_leaderboard") =>
    IF last.resp # None
    THEN last.ret.kind = "Ok" /\ last.ret.val = last.resp[1]
    ELSE last.ret.kind = "Err"

\* the server's list is in ascending order of score
C6_Witness ==
  /\ last.op = "get_leaderboard"
  /\ last.resp # None
  /\ Len(last.resp[1]) = 2
  /\ F32Rank(last.resp[1][1].score) < F32Rank(last.resp[1][2].score)
  /\ last.ret.kind = "Ok"

\* C7: the HMAC of a submission is keyed by the current player's key and its
\* message is the 8-byte little-endian timestamp, the 16 bytes of the
\* leaderboard key, the 16 bytes of the player id, the 4-byte little-endian
\* IEEE-754 score, then the bytes of the metadata when there is one, and
\* nothing else.
C7_MacMessageLayout ==
  (IsSend /\ last.mac # None) =>
    LET m == last.mac[1].message
        timestamp == last.reqs[1].body.timestamp
        score == last.args[1]
        player == last.pre.player[1]
    IN  /\ last.mac[1].key = player.key
        /\ Len(m) = 8 + 16 + 16 + 4 + (IF SentMeta = None THEN 0 ELSE Len(SentMeta[1]))
        /\ \A i \in 1..4 : m[i] = (timestamp \div (256 ^ (i - 1))) % 256
        /\ \A i \in 5..8 : m[i] = 0
        /\ SubSeq(m, 9, 24) = last.pre.key
        /\ SubSeq(m, 25, 40) = player.id
        /\ m[41] + 256 * m[42] + 65536 * (m[43] % 128) = score.mant
        /\ (m[43] \div 128) + 2 * (m[44] % 128) = score.exp
        /\ m[44] \div 128 = score.sign
        /\ SubSeq(m, 45, Len(m)) = (IF SentMeta = None THEN <<>> ELSE SentMeta[1])

C7_Witness ==
  /\ last.op = "send_score_with_meta"
  /\ last.mac # None
  /\ last.args[2] # <<>>
  /\ last.args[1].sign = 1
  /\ last.reqs[1].body.timestamp > 0

\* the inputs of the signature of the send recorded in last
SignInputs ==
  [player_key |-> last.pre.player[1].key,
   timestamp |-> last.reqs[1].body.timestamp,
   leaderboard_key |-> last.pre.key,
   player_id |-> last.pre.player[1].id,
   score |-> last.args[1],
   meta |-> SentMeta]

\* the tag ScoreInput::new computes from the inputs
Tag(in) ==
  ScoreInputNew(in.timestamp, in.leaderboard_key, in.score,
                Player(in.player_id, in.player_key, ""), in.meta).k

UuidValues ==
  {MkUuid(h) : h \in Handles} \cup {MkUuid(5 + h) : h \in Handles}
    \cup {p.id : p \in Players} \cup {p.key : p \in Players}

TimestampValues ==
  {Timestamp(t, c) : t \in Targets, c \in {r \in ClockReadings : r[1] >= 0}} \cup {0}

\* the input tuples that differ from in in exactly one field
SingleFieldVariants(in) ==
  ({[in EXCEPT !.player_key = v] : v \in UuidValues}
     \cup {[in EXCEPT !.timestamp = v] : v \in TimestampValues}
     \cup {[in EXCEPT !.leaderboard_key = v] : v \in UuidValues}
     \cup {[in EXCEPT !.player_id = v] : v \in UuidValues}
     \cup {[in EXCEPT !.score = v] : v \in Scores}
     \cup {[in EXCEPT !.meta = v] : v \in {None} \cup {Some(m) : m \in Metas}})
    \ {in}

\* C8: the tag is a function of the inputs, and every input tuple that differs
\* from the signed one in a single field (meta absent versus present included)
\* gets a different tag.
C8_TagSensitiveToEveryField ==
  (IsSend /\ last.mac # None) =>
    /\ Tag(SignInputs) = last.reqs[1].body.k
    /\ \A other \in SingleFieldVariants(SignInputs) :
         Tag(other) # last.reqs[1].body.k

\* C9: a score POST of a handle whose current player is p carries p.id as its
\* player field and 64 lowercase hex characters as its k field.
C9_PlayerIdAndHexTag ==
  (IsSend /\ last.reqs # <<>>) =>
    LET body == last.reqs[1].body
    IN  /\ last.reqs[1].method = "POST"
        /\ body.player = last.pre.player[1].id
        /\ Len(body.k) = 64
        /\ \A i \in 1..Len(body.k) :
             body.k[i] \in {"0", "1", "2", "3", "4", "5", "6", "7", "8", "9",
                            "a", "b", "c", "d", "e", "f"}

C9_Witness ==
  /\ last.op = "send_score"
  /\ last.reqs # <<>>
  /\ last.h = 2
  /\ \E i \in 1..Len(last.reqs[1].body.k) :
       last.reqs[1].body.k[i] \in {"a", "b", "c", "d", "e", "f"}

\* the keys of the players the handle of the latest call held before and holds
\* after it
CurrentKeys ==
  {last.pre.player[i].key : i \in 1..Len(last.pre.player)}
    \cup {lb[last.h].player[i].key : i \in 1..Len(lb[last.h].player)}

KeyInUrl(url, key) ==
  Len(url) >= 3 /\ url[3] \in {UuidToString(key), HexEncode(key)}

KeyInBody(req, key) ==
  \/ /\ req.kind = "ScoreInput"
     /\ \/ DOMAIN req.body # {"score", "player", "meta", "timestamp", "k"}
        \/ req.body.player = key
        \/ req.body.k \in {UuidToString(key), HexEncode(key)}
        \/ req.body.meta = Some(key)
  \/ /\ req.kind = "PlayerInput"
     /\ \/ DOMAIN req.body # {"name"}
        \/ req.body.name # last.args[1]
  \/ /\ req.kind = "none"
     /\ req.body # Unit

\* C10: no request of create_player, send_score, send_score_with_meta or
\* get_leaderboard carries the current player's key, in its body or its URL.
C10_KeyNeverTransmitted ==
  \A i \in 1..Len(last.reqs) : \A key \in CurrentKeys :
    ~KeyInUrl(last.reqs[i].url, key) /\ ~KeyInBody(last.reqs[i], key)

C10_Witness ==
  /\ last.op = "send_score_with_meta"
  /\ last.reqs # <<>>
  /\ last.resp # None
  /\ CurrentKeys # {}


\* the latest call returned a successful result
Succeeded == last.op # "idle" /\ last.ret.kind \in {"Ok", "Some", "unit"}

\* C11 as stated: while the current player is none only create_player and
\* as_player can succeed; send_score, send_score_with_meta and get_leaderboard
\* cannot.
C11_OnlyCreateOrConnectWhenUninitialized ==
  (last.pre.player = None /\ Succeeded) =>
    last.op \in {"create_player", "as_player"}

\* C11 as amended: while the current player is none send_score and
\* send_score_with_meta cannot succeed; get_leaderboard does not look at the
\* player and succeeds exactly when its GET produced a result.
C11_NoSendWhenUninitialized ==
  /\ (last.pre.player = None /\ Succeeded) =>
       last.op \in {"create_player", "as_player", "get_leaderboard"}
  /\ (last.op = "get_leaderboard") =>
       ((last.ret.kind = "Ok") <=> (last.resp # None))

C11_Witness ==
  /\ last.op = "send_score"
  /\ last.pre.player = None
  /\ ~Succeeded
  /\ last.h = 2

\* C13: every send_score and send_score_with_meta returns success or failure,
\* in every handle state, for every transport outcome and every clock reading,
\* one before the Unix epoch included.
C13_SendNeverPanics ==
  IsSend => last.ret.kind \in {"Some", "None"}


\* C12: a drain takes and clears the slot, so every written result is
\* delivered at most once, and a drain with no write since the previous drain
\* of that slot delivers nothing, under every interleaving of background
\* writes and polls.
C12_NoDoubleDelivery ==
  /\ \A n \in 1..MaxWrites : hist.delivered[n] <= 1
  /\ (last.op = "check_for_updates") => slot[last.h].content = None
  /\ (last.op = "check_for_updates" /\ last.ret.kind = "Some") =>
       hist.delivered[last.ret.val[1]] = 1

\* a drain that found nothing, after the last written result was delivered
C12_Witness ==
  /\ last.op = "check_for_updates"
  /\ last.ret.kind = "None"
  /\ hist.written >= 2
  /\ hist.delivered[hist.written] = 1


\* C14: every call hands at most one request to the transport (create_player
\* and get_leaderboard exactly one), a failed request is reported by the
\* return value of that call, and nothing but a call of an operation sends a
\* request.
C14_NoRetries ==
  /\ Len(last.reqs) <= 1
  /\ (last.op \in {"create_player", "get_leaderboard"}) => Len(last.reqs) = 1
  /\ (Len(last.reqs) = 1 /\ last.resp = None) => last.ret.kind \in {"Err", "None"}
  /\ (last.op \in {"idle", "get_player", "as_player", "check_for_updates"}) =>
       last.reqs = <<>>

C14_Witness ==
  /\ last.op = "get_leaderboard"
  /\ last.resp = None
  /\ Len(last.reqs) = 1
  /\ last.ret.kind = "Err"

\* C15: a step changes no handle but the one the operation was called on, and
\* a score sent through a handle is signed with that handle's player and
\* leaderboard key.
C15_HandlesIsolated ==
  /\ [](  (IsSend /\ last.mac # None) =>
            /\ last.mac[1].key = lb[last.h].player[1].key
            /\ SubSeq(last.mac[1].message, 9, 24) = lb[last.h].key
            /\ SubSeq(last.mac[1].message, 25, 40) = lb[last.h].player[1].id )
  /\ [][ \A g \in Handles :
           (lb'[g] # lb[g]) => (last' # Idle /\ last'.h = g) ]_vars

C15_Witness ==
  /\ IsSend
  /\ last.mac # None
  /\ \E g \in Handles :
       /\ g # last.h
       /\ lb[g].player # None
       /\ lb[g].player # lb[last.h].player
       /\ lb[g].key # lb[last.h].key

\* C16: the timestamp of a submission is the wall clock in whole seconds as it
\* reads during that send (a reading before the epoch gives 0 where the send
\* returns).
C16_TimestampReadAtSend ==
  (IsSend /\ last.reqs # <<>>) =>
    last.reqs[1].body.timestamp = (IF clock[1] >= 0 THEN clock[1] ELSE 0)

C16_Witness ==
  /\ IsSend
  /\ last.reqs # <<>>
  /\ clock = ClockReading(2)
  /\ last.reqs[1].body.timestamp = ClockReading(2)[1]

\* C17: the fields a submission carries are the values its signature was
\* computed over: timestamp, player id, score and meta of the body are those
\* in the signed message, the HMAC key is the key of that player, the
\* leaderboard key signed is the handle's, and k is the tag of that message.
C17_WireMatchesSigned ==
  (IsSend /\ last.reqs # <<>>) =>
    /\ last.mac # None
    /\ LET body == last.reqs[1].body
           m == last.mac[1].message
       IN  /\ SubSeq(m, 1, 8) = U64ToLeBytes(body.timestamp)
           /\ SubSeq(m, 9, 24) = last.pre.key
           /\ SubSeq(m, 25, 40) = body.player
           /\ SubSeq(m, 41, 44) = F32ToLeBytes(body.score)
           /\ SubSeq(m, 45, Len(m)) = (IF body.meta = None THEN <<>> ELSE body.meta[1])
           /\ last.pre.player[1].id = body.player
           /\ last.mac[1].key = last.pre.player[1].key
           /\ body.k = HexEncode(HmacSha256(last.mac[1].key, m))

C17_Witness ==
  /\ last.op = "send_score_with_meta"
  /\ last.reqs # <<>>
  /\ last.reqs[1].body.meta # None
  /\ last.reqs[1].body.meta[1] # <<>>
  /\ last.resp = None

\* C18: send_score, send_score_with_meta, get_leaderboard and get_player leave
\* the handle they are called on as it was, whatever they return.
C18_ReadOnlyOperations ==
  (last.op \in {"send_score", "send_score_with_meta", "get_leaderboard", "get_player"}) =>
    lb[last.h] = last.pre

C18_Witness ==
  /\ last.op = "get_leaderboard"
  /\ last.ret.kind = "Err"
  /\ last.pre.player # None

\* C19: a new handle has no player; once a handle has a player no step takes
\* it away; and the player of a handle changes only by an as_player or a
\* successful create_player on that handle.
C19_ActiveIsAbsorbing ==
  /\ \A h \in Handles : lb[h].player = None
  /\ [][ \A h \in Handles :
           /\ (lb[h].player # None) => (lb'[h].player # None)
           /\ (lb'[h].player # lb[h].player) =>
                /\ last'.h = h
                /\ \/ last'.op = "as_player"
                   \/ (last'.op = "create_player" /\ last'.resp # None) ]_vars

C19_Witness ==
  /\ last.op = "create_player"
  /\ last.resp = None
  /\ lb[last.h].player # None
  /\ last.h = 2

====
